---- MODULE Spec2Model ----
(***************************************************************************)
(* Retirement simulator (streamlit_app.py) and visitor tracker             *)
(* (visitor_tracker.py).                                                   *)
(*                                                                         *)
(* Numbers.  Means and deviations of the regime blocks are in percent.     *)
(* Money, rates and returns of the path simulator are exact rationals:     *)
(* withdraw_rate, stock_ratio and the drawn returns are numerators over    *)
(* FracDen, and every amount is a numerator over an explicit denominator.  *)
(* Python's None is the empty tuple, a present value x is <<x>>.           *)
(***************************************************************************)
EXTENDS Integers, Sequences, FiniteSets, TLC

VARIABLES
    phase,               \* position of the script / of the function under study
    seed,                \* the seed argument (schedule shuffle, simulate_once)
    use_random_scenario, \* sidebar checkbox, line 96
    scenarios,           \* the schedule in use, line 99
    lookup_year,         \* get_market_params: argument year
    lookup_result,       \* get_market_params: returned 4-tuple
    args,                \* simulate_once: its arguments
    run,                 \* simulate_once: its locals and its result
    batch,               \* the two single-scenario batch runs compared
    grid,                \* the grid sweep: tasks, workers, records
    db,                  \* visitors.db: the table visitors
    today,               \* the date datetime.date.today() returns
    sessions             \* visitor tracker: each session's record_visit call

vars == <<phase, seed, use_random_scenario, scenarios, lookup_year,
          lookup_result, args, run, batch, grid, db, today, sessions>>

None == <<>>

Some(x) == <<x>>

-----------------------------------------------------------------------------
(* Bounds of the model *)

MaxSeed == 728

MaxLookupYear == 50

MaxBlocks == 2

-----------------------------------------------------------------------------
(* Regime schedule *)

HORIZON == 30

SCENARIOS_FIXED ==
    << <<3, -2, 25, 1, 8, "2008-2010 Financial Crisis">>,
       <<3, 10, 18, 3, 5, "2011-2013 Bull Market Recovery">>,
       <<2, 1, 20, 2, 6, "2014-2015 European Debt Crisis">>,
       <<5, 9, 16, 4, 5, "2016-2020 Continued Bull Market">>,
       <<2, -5, 30, 0, 10, "2021-2022 COVID-19">>,
       <<3, 6, 18, 1, 8, "2023-2025 Post-Pandemic Recovery">>,
       <<30, 7, 14, 3, 5, "2026+ Stable Growth">> >>

\* sum([b[0] for b in blocks])
RECURSIVE SumDurations(_)
SumDurations(blocks) ==
    IF blocks = <<>> THEN 0
    ELSE blocks[1][1] + SumDurations(Tail(blocks))

\* s without its i-th element
RemoveAt(s, i) == SubSeq(s, 1, i - 1) \o SubSeq(s, i + 1, Len(s))

\* random.Random(sd).sample(population, k=len(population)): a permutation of
\* the population that is a function of the seed alone.  The seed is read as
\* a factorial-base number, so the seeds 0 .. n!-1 give the n! permutations.
RECURSIVE Sample(_, _)
Sample(population, sd) ==
    IF population = <<>> THEN <<>>
    ELSE LET n == Len(population)
             i == (sd % n) + 1
         IN  <<population[i]>> \o Sample(RemoveAt(population, i), sd \div n)

\* the loop of lines 35-40: keep a block when it still fits
RECURSIVE TruncateBlocks(_, _)
TruncateBlocks(blocks, count) ==
    IF blocks = <<>> THEN <<>>
    ELSE LET b == blocks[1]
         IN  IF count + b[1] <= HORIZON
             THEN <<b>> \o TruncateBlocks(Tail(blocks), count + b[1])
             ELSE TruncateBlocks(Tail(blocks), count)

\* Mutant: the terminal block is appended with its nominal duration.
generate_random_scenarios_keep_final(sd) ==
    LET blocks == Sample(SubSeq(SCENARIOS_FIXED, 1, Len(SCENARIOS_FIXED) - 1), sd)
        final == SCENARIOS_FIXED[Len(SCENARIOS_FIXED)]
    IN  IF SumDurations(blocks) >= HORIZON
        THEN TruncateBlocks(blocks, 0)
        ELSE blocks \o <<final>>

generate_random_scenarios(sd) ==
    LET blocks == Sample(SubSeq(SCENARIOS_FIXED, 1, Len(SCENARIOS_FIXED) - 1), sd)
        final == SCENARIOS_FIXED[Len(SCENARIOS_FIXED)]
        total_years == SumDurations(blocks)
    IN  IF total_years >= HORIZON
        THEN TruncateBlocks(blocks, 0)
        ELSE LET final_duration == HORIZON - total_years
                 final_block == <<final_duration>> \o Tail(final)
             IN  blocks \o <<final_block>>

\* Mutant: the random schedule is built whatever the checkbox says.
select_scenarios_always_random(random, sd) == generate_random_scenarios(sd)

\* line 99
select_scenarios(random, sd) ==
    IF random THEN generate_random_scenarios(sd) ELSE SCENARIOS_FIXED

\* the loop of get_market_params from block index i on
RECURSIVE MarketParamsFrom(_, _, _, _)
MarketParamsFrom(year, sched, i, counter) ==
    IF i > Len(sched) THEN SubSeq(sched[Len(sched)], 2, 5)
    ELSE IF year < counter + sched[i][1] THEN SubSeq(sched[i], 2, 5)
    ELSE MarketParamsFrom(year, sched, i + 1, counter + sched[i][1])

\* Mutant: the block's last year is given to the block too (<= for <).
RECURSIVE MarketParamsFromLe(_, _, _, _)
MarketParamsFromLe(year, sched, i, counter) ==
    IF i > Len(sched) THEN SubSeq(sched[Len(sched)], 2, 5)
    ELSE IF year <= counter + sched[i][1] THEN SubSeq(sched[i], 2, 5)
    ELSE MarketParamsFromLe(year, sched, i + 1, counter + sched[i][1])

get_market_params_le(year, sched) == MarketParamsFromLe(year, sched, 1, 0)

get_market_params(year, sched) == MarketParamsFrom(year, sched, 1, 0)

-----------------------------------------------------------------------------
(* Path simulator *)

FracDen == 2

MaxYears == 3

MaxAsset == 2

\* withdraw_rate: 0, 1/FracDen, 1
WithdrawRates == {0, 1, FracDen}

\* stock_ratio: 0, 1/FracDen, ..., 1
StockRatios == 0 .. FracDen

\* The values a draw can take, as numerators over FracDen: a gain of 100%, a
\* small loss, a return below -200%.
ReturnValues == << FracDen, -1, -(2 * FracDen + 1) >>

\* np.random.default_rng(stream) followed by its j-th call of rng.normal
\* (j = 0, 1, ...): a function of the stream's seed and of j alone.  A normal
\* draw with a positive deviation can be any real whatever its mean, so the
\* value does not depend on the block's parameters.  The seed is read as a
\* number in base Len(ReturnValues): the seeds 0 .. b^n - 1 give every
\* sequence of n draws.
RngNormal(stream, j) ==
    ReturnValues[((stream \div (Len(ReturnValues) ^ j)) % Len(ReturnValues)) + 1]

\* [x] * n
RECURSIVE Repeat(_, _)
Repeat(x, n) == IF n <= 0 THEN <<>> ELSE <<x>> \o Repeat(x, n - 1)

\* npf.irr(cash_flows), cash_flows = [-initial_asset, w, ..., w] as rationals.
\* The rate is a positive real root of the flows' polynomial; when the flows
\* never change sign there is none and npf.irr returns nan.  The root itself
\* is kept as the flows it is the rate of.
NpfIrr(cash_flows) ==
    LET signs == {cash_flows[i][1] * cash_flows[i][2] : i \in 1 .. Len(cash_flows)}
    IN  [nan |-> ~((\E x \in signs : x > 0) /\ (\E x \in signs : x < 0)),
         cash_flows |-> cash_flows]

\* lines 54-61
compute_irr(annual_changes, withdrawal, initial_asset) ==
    IF annual_changes = <<>> THEN None
    ELSE Some(NpfIrr(<< <<-initial_asset, 1>> >>
                     \o Repeat(withdrawal, Len(annual_changes))))

\* line 65, as a rational
annual_withdrawal(a) == <<a.initial_asset * a.withdraw_rate, FracDen>>

\* lines 64-69: the locals before the loop
InitRun(a) ==
    [year |-> 0,
     stock_asset |-> a.initial_asset * a.stock_ratio,
     bond_asset |-> a.initial_asset * (FracDen - a.stock_ratio),
     den |-> FracDen,
     market |-> None,
     total_asset |-> None,
     asset_history |-> <<>>,
     annual_changes |-> <<>>,
     draws |-> <<>>,
     result |-> None]

\* Mutant: a total of exactly zero is not a depletion
DepletedStrict(total) == total < 0

\* line 78
Depleted(total) == total <= 0

\* Mutant: the depleted result carries an annualized return of -100%
DepletedResultWithRate(a, r) ==
    [ending_asset |-> <<0, 1>>,
     bankruptcy_year |-> Some(r.year + 1),
     return_rate |-> Some([base |-> <<0, 1>>, root |-> a.years]),
     irr |-> compute_irr(r.annual_changes, annual_withdrawal(a), a.initial_asset),
     error |-> None]

\* lines 79-80
DepletedResult(a, r) ==
    [ending_asset |-> <<0, 1>>,
     bankruptcy_year |-> Some(r.year + 1),
     return_rate |-> None,
     irr |-> compute_irr(r.annual_changes, annual_withdrawal(a), a.initial_asset),
     error |-> None]

\* lines 72-86: one pass of the loop body, r.year being the loop's year
YearStep(a, r) ==
    LET stream == a.seed + a.sim_id
        market == get_market_params(r.year, a.scenarios)
        stock_return == RngNormal(stream, 2 * r.year)
        bond_return == RngNormal(stream, 2 * r.year + 1)
        den1 == r.den * FracDen
        stock1 == r.stock_asset * (FracDen + stock_return)
        bond1 == r.bond_asset * (FracDen + bond_return)
        \* annual_withdrawal over den1 = r.den * FracDen
        total == stock1 + bond1 - annual_withdrawal(a)[1] * r.den
        grown == [r EXCEPT !.market = Some(market),
                           !.draws = Append(@, <<stock_return, bond_return>>),
                           !.stock_asset = stock1,
                           !.bond_asset = bond1,
                           !.den = den1,
                           !.total_asset = Some(<<total, den1>>)]
    IN  IF Depleted(total)
        THEN [grown EXCEPT !.result = Some(DepletedResult(a, r))]
        ELSE [grown EXCEPT
                !.annual_changes =
                    IF r.asset_history # <<>>
                    THEN LET prev == r.asset_history[Len(r.asset_history)]
                             k == den1 \div prev[2]
                         IN  Append(@, <<total - prev[1] * k, prev[1] * k>>)
                    ELSE @,
                !.asset_history = Append(@, <<total, den1>>),
                !.stock_asset = total * a.stock_ratio,
                !.bond_asset = total * (FracDen - a.stock_ratio),
                !.den = den1 * FracDen,
                !.year = r.year + 1]

\* lines 87-89: after the loop; the division by initial_asset and the
\* exponent 1 / years raise ZeroDivisionError when either is zero
SurvivedResult(a, r) ==
    LET final_asset == r.stock_asset + r.bond_asset
    IN  IF a.initial_asset = 0 \/ a.years = 0
        THEN [ending_asset |-> <<final_asset, r.den>>,
              bankruptcy_year |-> None,
              return_rate |-> None,
              irr |-> None,
              error |-> Some("ZeroDivisionError")]
        ELSE [ending_asset |-> <<final_asset, r.den>>,
              bankruptcy_year |-> None,
              return_rate |-> Some([base |-> <<final_asset, r.den * a.initial_asset>>,
                                    root |-> a.years]),
              irr |-> None,
              error |-> None]

\* the whole call, from the locals r on
RECURSIVE RunToEnd(_, _)
RunToEnd(a, r) ==
    IF r.result # None THEN r
    ELSE IF r.year < a.years THEN RunToEnd(a, YearStep(a, r))
    ELSE [r EXCEPT !.result = Some(SurvivedResult(a, r))]

SimArgs(sim_id, initial_asset, withdraw_rate, years, stock_ratio, sd, sched) ==
    [sim_id |-> sim_id, initial_asset |-> initial_asset,
     withdraw_rate |-> withdraw_rate, years |-> years,
     stock_ratio |-> stock_ratio, seed |-> sd, scenarios |-> sched]

simulate_once(sim_id, initial_asset, withdraw_rate, years, stock_ratio, sd, sched) ==
    LET a == SimArgs(sim_id, initial_asset, withdraw_rate, years, stock_ratio, sd, sched)
    IN  RunToEnd(a, InitRun(a)).result[1]

-----------------------------------------------------------------------------
(* Batch run (lines 102-110) and grid sweep (lines 158-175) *)

MaxSims == 2

NWorkers == 2

GridRateStop == 3

SINGLE_SEED == 42

GRID_SEED == 100

\* Mutant: the partition is swapped
SuccessesSwapped(results) ==
    SelectSeq(results, LAMBDA r : r.bankruptcy_year # None)

\* line 103, line 160
Successes(results) == SelectSeq(results, LAMBDA r : r.bankruptcy_year = None)

\* line 104, line 161
Failures(results) == SelectSeq(results, LAMBDA r : r.bankruptcy_year # None)

\* s with x inserted before its first element greater than x
RECURSIVE InsertSorted(_, _)
InsertSorted(s, x) ==
    IF s = <<>> THEN <<x>>
    ELSE IF x <= s[1] THEN <<x>> \o s
    ELSE <<s[1]>> \o InsertSorted(Tail(s), x)

RECURSIVE SortAscending(_)
SortAscending(s) == IF s = <<>> THEN <<>> ELSE InsertSorted(SortAscending(Tail(s)), s[1])

\* np.percentile(values, 100 * qn / qd) of a non-empty list of integers, by
\* linear interpolation between the two nearest ranks: a rational over qd
Percentile(values, qn, qd) ==
    LET sorted == SortAscending(values)
        pos == qn * (Len(sorted) - 1)
        lo == (pos \div qd) + 1
        rem == pos % qd
    IN  IF rem = 0 THEN <<qd * sorted[lo], qd>>
        ELSE <<qd * sorted[lo] + rem * (sorted[lo + 1] - sorted[lo]), qd>>

\* the ending assets of survivors of one batch share their denominator
EndingNums(results) == [i \in 1 .. Len(results) |-> results[i].ending_asset[1]]

BankruptcyYears(results) == [i \in 1 .. Len(results) |-> results[i].bankruptcy_year[1]]

RECURSIVE SumSeq(_)
SumSeq(s) == IF s = <<>> THEN 0 ELSE s[1] + SumSeq(Tail(s))

\* line 102: the list of results of one batch
BatchResults(n, initial_asset, withdraw_rate, years, stock_ratio, sd, sched) ==
    [i \in 1 .. n |->
        simulate_once(i - 1, initial_asset, withdraw_rate, years, stock_ratio, sd, sched)]

\* lines 103-110: what the page shows of one batch
BatchSummary(results, n) ==
    LET successes == Successes(results)
        failures == Failures(results)
    IN  [successes |-> successes,
         failures |-> failures,
         success_rate |-> <<Len(successes), n>>,
         avg_bk |-> IF failures # <<>>
                    THEN Some(<<SumSeq(BankruptcyYears(failures)), Len(failures)>>)
                    ELSE None]

\* np.arange(start, stop, step) on integers, step > 0
Arange(start, stop, step) ==
    [i \in 1 .. (IF stop > start THEN (stop - start + step - 1) \div step ELSE 0)
        |-> start + (i - 1) * step]

\* line 171, the rates being numerators over FracDen: 0, 1/FracDen, ...
withdraw_rates == Arange(0, GridRateStop, 1)

\* line 172: the ratios 0, 1/FracDen, ... below 1
stock_ratios == Arange(0, FracDen, 1)

\* Mutant: the two axes are paired element by element
ParamGridZip(wrs, srs) ==
    [k \in 1 .. (IF Len(wrs) < Len(srs) THEN Len(wrs) ELSE Len(srs))
        |-> <<wrs[k], srs[k]>>]

\* line 173: [(wr, sr) for wr in withdraw_rates for sr in stock_ratios]
ParamGrid(wrs, srs) ==
    [k \in 1 .. Len(wrs) * Len(srs) |->
        <<wrs[((k - 1) \div Len(srs)) + 1], srs[((k - 1) % Len(srs)) + 1]>>]

\* line 159: the (sim_id, seed) arguments of the calls of one cell
GridCalls(n) == [i \in 1 .. n |-> [sim_id |-> i - 1, seed |-> GRID_SEED + (i - 1)]]

\* lines 158-169; the initial asset and the years stand for 1000 and 30
simulate_grid(wr, sr, n, sched) ==
    LET calls == GridCalls(n)
        res == [i \in 1 .. n |->
                   simulate_once(calls[i].sim_id, MaxAsset, wr, MaxYears, sr,
                                 calls[i].seed, sched)]
        success == Successes(res)
        fail == Failures(res)
    IN  [withdrawal_rate |-> wr,
         stock_allocation |-> sr,
         success_rate |-> <<Len(success), n>>,
         top25 |-> IF success # <<>>
                   THEN Some(<<Percentile(EndingNums(success), 3, 4),
                               success[1].ending_asset[2]>>)
                   ELSE None,
         bottom25 |-> IF success # <<>>
                      THEN Some(<<Percentile(EndingNums(success), 1, 4),
                                  success[1].ending_asset[2]>>)
                      ELSE None,
         median_bankruptcy_year |-> IF fail # <<>>
                                    THEN Some(Percentile(BankruptcyYears(fail), 1, 2))
                                    ELSE None]

-----------------------------------------------------------------------------
(* Specification of the schedule builder: the script up to line 99, for     *)
(* every seed and both settings of the checkbox                             *)

scheduleVars == <<seed, use_random_scenario, scenarios>>

lookupVars == <<lookup_year, lookup_result>>

simVars == <<args, run>>

visitVars == <<db, today, sessions>>

InitSchedule ==
    /\ phase = "sidebar"
    /\ seed \in 0 .. MaxSeed
    /\ use_random_scenario \in BOOLEAN
    /\ scenarios = None
    /\ lookup_year = 0
    /\ lookup_result = None
    /\ args = None
    /\ run = None
    /\ batch = None
    /\ grid = None
    /\ db = None
    /\ today = 0
    /\ sessions = None

\* line 99
SelectScenarios ==
    /\ phase = "sidebar"
    /\ scenarios' = select_scenarios(use_random_scenario, seed)
    /\ phase' = "selected"
    /\ UNCHANGED <<seed, use_random_scenario, lookupVars, simVars, batch, grid,
                   visitVars>>

\* line 72, as simulate_once calls it for the years of the horizon
LookupYear ==
    /\ phase = "selected"
    /\ \E y \in 0 .. HORIZON - 1 :
         /\ lookup_year' = y
         /\ lookup_result' = Some(get_market_params(y, scenarios))
    /\ phase' = "looked_up"
    /\ UNCHANGED <<scheduleVars, simVars, batch, grid, visitVars>>

NextSchedule == SelectScenarios \/ LookupYear

SpecSchedule == InitSchedule /\ [][NextSchedule]_vars

-----------------------------------------------------------------------------
(* Specification of get_market_params as a function: any schedule of up to  *)
(* MaxBlocks blocks, the fixed schedule, and any year up to MaxLookupYear   *)

RECURSIVE SeqsUpTo(_, _)
SeqsUpTo(S, n) ==
    IF n = 0 THEN {<<>>}
    ELSE LET shorter == SeqsUpTo(S, n - 1)
         IN  shorter \cup {Append(q, x) : q \in shorter, x \in S}

BlockPool == {SCENARIOS_FIXED[i] : i \in 1 .. Len(SCENARIOS_FIXED)}

LookupSchedules == (SeqsUpTo(BlockPool, MaxBlocks) \ {<<>>}) \cup {SCENARIOS_FIXED}

InitLookup ==
    /\ phase = "lookup"
    /\ seed = 0
    /\ use_random_scenario = FALSE
    /\ scenarios \in LookupSchedules
    /\ lookup_year \in 0 .. MaxLookupYear
    /\ lookup_result = None
    /\ args = None
    /\ run = None
    /\ batch = None
    /\ grid = None
    /\ db = None
    /\ today = 0
    /\ sessions = None

\* lines 46-52
GetMarketParams ==
    /\ phase = "lookup"
    /\ lookup_result' = Some(get_market_params(lookup_year, scenarios))
    /\ phase' = "returned"
    /\ UNCHANGED <<scheduleVars, lookup_year, simVars, batch, grid, visitVars>>

NextLookup == GetMarketParams

SpecLookup == InitLookup /\ [][NextLookup]_vars

-----------------------------------------------------------------------------
(* Specification of one call of simulate_once, a loop pass per step         *)

InitSim ==
    /\ phase = "simulate_once"
    /\ seed \in 0 .. MaxSeed
    /\ use_random_scenario = FALSE
    /\ scenarios = SCENARIOS_FIXED
    /\ lookup_year = 0
    /\ lookup_result = None
    /\ \E sim_id \in 0 .. 1, initial_asset \in 0 .. MaxAsset,
          withdraw_rate \in WithdrawRates, years \in 1 .. MaxYears,
          stock_ratio \in StockRatios :
         args = SimArgs(sim_id, initial_asset, withdraw_rate, years,
                        stock_ratio, seed, scenarios)
    /\ run = InitRun(args)
    /\ batch = None
    /\ grid = None
    /\ db = None
    /\ today = 0
    /\ sessions = None

\* lines 71-86: one pass of the loop
SimYear ==
    /\ phase = "simulate_once"
    /\ run.result = None
    /\ run.year < args.years
    /\ run' = YearStep(args, run)
    /\ UNCHANGED <<phase, scheduleVars, lookupVars, args, batch, grid, visitVars>>

\* lines 87-89: the loop is over
SimReturn ==
    /\ phase = "simulate_once"
    /\ run.result = None
    /\ run.year >= args.years
    /\ run' = [run EXCEPT !.result = Some(SurvivedResult(args, run))]
    /\ UNCHANGED <<phase, scheduleVars, lookupVars, args, batch, grid, visitVars>>

NextSim == SimYear \/ SimReturn

SpecSim == InitSim /\ [][NextSim]_vars

-----------------------------------------------------------------------------
(* Claims about the schedule and the lookup *)

\* C2: in randomized mode, for every seed (every permutation of the six
\* non-terminal blocks), the durations of the schedule's blocks sum to
\* exactly 30.
C2_RandomScheduleCovers30 ==
    (phase # "sidebar" /\ use_random_scenario) => SumDurations(scenarios) = 30

\* A shuffled schedule: another first block than the fixed one's, and the
\* terminal block cut to 12 years.
C2_Witness ==
    /\ phase = "selected"
    /\ use_random_scenario
    /\ Len(scenarios) = 7
    /\ scenarios[1] # SCENARIOS_FIXED[1]
    /\ scenarios[7][1] = 12

\* C8 as stated: in canonical mode the schedule is the fixed list of 7
\* blocks, unchanged, and their durations total exactly 30.
C8_Original ==
    (phase # "sidebar" /\ ~use_random_scenario) =>
        /\ scenarios = SCENARIOS_FIXED
        /\ Len(scenarios) = 7
        /\ SumDurations(scenarios) = 30

\* C8 as amended: in canonical mode the schedule is the fixed list of 7
\* blocks, unchanged, with durations 3, 3, 2, 5, 2, 3, 30: they total 48
\* years, the six non-terminal blocks 18 of them, so the terminal block
\* covers the years 18 .. 29 of the 30-year horizon.
C8_CanonicalSchedule ==
    (phase # "sidebar" /\ ~use_random_scenario) =>
        /\ scenarios = SCENARIOS_FIXED
        /\ [i \in 1 .. Len(scenarios) |-> scenarios[i][1]] = <<3, 3, 2, 5, 2, 3, 30>>
        /\ SumDurations(scenarios) = 48
        /\ \A y \in 18 .. 29 : get_market_params(y, scenarios) = <<7, 14, 3, 5>>

C8_Witness ==
    /\ phase = "looked_up"
    /\ ~use_random_scenario
    /\ lookup_year = 29
    /\ lookup_result = Some(<<7, 14, 3, 5>>)

\* the years covered by the first b blocks of a schedule
PrefixSpan(sched, b) == SumDurations(SubSeq(sched, 1, b))

\* C7: get_market_params(year, schedule) returns the parameters of the first
\* block b with year < the durations of the blocks up to and including b,
\* and the last block's parameters when no block covers the year.
C7_LookupFirstCoveringBlock ==
    phase = "returned" =>
        LET covering == {b \in 1 .. Len(scenarios) :
                            lookup_year < PrefixSpan(scenarios, b)}
            first == CHOOSE b \in covering : \A c \in covering : b <= c
            block == IF covering # {} THEN scenarios[first]
                     ELSE scenarios[Len(scenarios)]
        IN  lookup_result = Some(<<block[2], block[3], block[4], block[5]>>)

\* A year past the span of a schedule of two different blocks: the last
\* block's parameters are returned.
C7_Witness ==
    /\ phase = "returned"
    /\ Len(scenarios) = 2
    /\ scenarios[1] # scenarios[2]
    /\ lookup_year >= SumDurations(scenarios)
    /\ lookup_result = Some(SubSeq(scenarios[2], 2, 5))

-----------------------------------------------------------------------------
(* Claims about simulate_once *)

\* The post-withdrawal total of year y (1-based) of a path rebalanced every
\* year, from the drawn returns; its denominator FracDen^(2y) is positive.
RECURSIVE PostWithdrawal(_, _, _)
PostWithdrawal(a, draws, y) ==
    IF y = 0 THEN a.initial_asset
    ELSE PostWithdrawal(a, draws, y - 1)
             * (a.stock_ratio * (FracDen + draws[y][1])
                + (FracDen - a.stock_ratio) * (FracDen + draws[y][2]))
         - a.initial_asset * a.withdraw_rate * FracDen ^ (2 * y - 1)

\* C1: every result simulate_once returns has exactly one of return_rate and
\* bankruptcy_year set: a depleted result (ending_asset 0 after a year whose
\* total was <= 0) has bankruptcy_year and no return_rate, a survived one
\* has return_rate and no bankruptcy_year.
C1_ExactlyOneOfRateAndBankruptcy ==
    (phase = "simulate_once" /\ run.result # None) =>
        LET res == run.result[1]
            n == Len(run.draws)
        IN  /\ res.error = None
            /\ (res.return_rate # None) # (res.bankruptcy_year # None)
            /\ PostWithdrawal(args, run.draws, n) <= 0 =>
                   res.bankruptcy_year # None /\ res.return_rate = None
            /\ PostWithdrawal(args, run.draws, n) > 0 =>
                   res.return_rate # None /\ res.bankruptcy_year = None

\* a survived path of more than one year
C1_Witness ==
    /\ phase = "simulate_once"
    /\ run.result # None
    /\ run.result[1].return_rate # None
    /\ args.years > 1
    /\ args.withdraw_rate > 0

\* C9: bankruptcy_year = k exactly when the post-withdrawal total is > 0 in
\* the years 1 .. k-1 and <= 0 in year k; no year after k is simulated (no
\* further draw) and ending_asset is 0.  With a total > 0 in every year the
\* path is reported survived.
C9_FirstNonPositiveYear ==
    phase = "simulate_once" =>
        LET n == Len(run.draws)
            positive(y) == PostWithdrawal(args, run.draws, y) > 0
        IN  /\ n <= args.years
            /\ \A y \in 1 .. n - 1 : positive(y)
            /\ run.result = None => n = run.year /\ (n > 0 => positive(n))
            /\ run.result # None =>
                 LET res == run.result[1]
                 IN  IF n > 0 /\ ~positive(n)
                     THEN /\ res.bankruptcy_year = Some(n)
                          /\ res.ending_asset[1] = 0
                     ELSE /\ res.bankruptcy_year = None
                          /\ n = args.years

\* depleted in a year that is neither the first nor the last
C9_Witness ==
    /\ phase = "simulate_once"
    /\ run.result # None
    /\ run.result[1].bankruptcy_year = Some(2)
    /\ Len(run.draws) = 2
    /\ args.years = 3

\* C4: a path depleted in year k passes to the IRR computation the flows
\* [-initial_asset] and one withdrawal per completed year, k-1 of them; the
\* IRR is null for lack of flows only when k = 1.
C4_OneWithdrawalPerCompletedYear ==
    (phase = "simulate_once" /\ run.result # None
        /\ run.result[1].bankruptcy_year # None) =>
        LET res == run.result[1]
            k == res.bankruptcy_year[1]
        IN  IF k = 1 THEN res.irr = None
            ELSE /\ res.irr # None
                 /\ res.irr[1].cash_flows =
                        << <<-args.initial_asset, 1>> >>
                        \o Repeat(annual_withdrawal(args), k - 1)

-----------------------------------------------------------------------------
(* Specification of two single-scenario batch runs that differ in the       *)
(* withdrawal rate alone: same base seed, hence the same draws per path     *)

InitBatch ==
    /\ phase = "batch"
    /\ seed \in 0 .. MaxSeed
    /\ use_random_scenario = FALSE
    /\ scenarios = SCENARIOS_FIXED
    /\ lookup_year = 0
    /\ lookup_result = None
    /\ args = None
    /\ run = None
    /\ \E initial_asset \in 1 .. MaxAsset, years \in 1 .. MaxYears,
          stock_ratio \in StockRatios, wr1 \in WithdrawRates, wr2 \in WithdrawRates :
         /\ wr1 <= wr2
         /\ batch = [initial_asset |-> initial_asset, years |-> years,
                     stock_ratio |-> stock_ratio, n_simulations |-> MaxSims,
                     withdraw_rate |-> <<wr1, wr2>>,
                     results |-> <<None, None>>,
                     summary |-> <<None, None>>]
    /\ grid = None
    /\ db = None
    /\ today = 0
    /\ sessions = None

\* line 102, for the run at withdraw_rate[k]; the second run of the script
\* follows the first
BatchSimulate(k) ==
    /\ phase = "batch"
    /\ batch.results[k] = None
    /\ k > 1 => batch.summary[k - 1] # None
    /\ batch' = [batch EXCEPT !.results[k] =
                    Some(BatchResults(batch.n_simulations, batch.initial_asset,
                                      batch.withdraw_rate[k], batch.years,
                                      batch.stock_ratio, seed, scenarios))]
    /\ UNCHANGED <<phase, scheduleVars, lookupVars, simVars, grid, visitVars>>

\* lines 103-110, for the run at withdraw_rate[k]
BatchSummarise(k) ==
    /\ phase = "batch"
    /\ batch.results[k] # None
    /\ batch.summary[k] = None
    /\ batch' = [batch EXCEPT !.summary[k] =
                    Some(BatchSummary(batch.results[k][1], batch.n_simulations))]
    /\ UNCHANGED <<phase, scheduleVars, lookupVars, simVars, grid, visitVars>>

NextBatch == \E k \in 1 .. 2 : BatchSimulate(k) \/ BatchSummarise(k)

SpecBatch == InitBatch /\ [][NextBatch]_vars

\* C3: with initial_asset > 0 and all else fixed, for withdrawal rates
\* wr1 <= wr2 the batch at wr2 has no more surviving paths, and no higher
\* success rate, than the batch at wr1.
C3_SuccessRateMonotone ==
    (phase = "batch" /\ batch.summary[1] # None /\ batch.summary[2] # None) =>
        LET s1 == batch.summary[1][1]
            s2 == batch.summary[2][1]
        IN  /\ Len(s2.successes) <= Len(s1.successes)
            /\ s2.success_rate[1] * s1.success_rate[2]
                   <= s1.success_rate[1] * s2.success_rate[2]

\* the higher rate loses a path the lower rate keeps, and keeps another
C3_Witness ==
    /\ phase = "batch"
    /\ batch.summary[1] # None
    /\ batch.summary[2] # None
    /\ batch.withdraw_rate[1] < batch.withdraw_rate[2]
    /\ Len(batch.summary[1][1].successes) = 2
    /\ Len(batch.summary[2][1].successes) = 1

-----------------------------------------------------------------------------
(* Specification of the grid sweep: the tasks are handed to at most         *)
(* NWorkers workers in the order of param_grid and finish in any order      *)

InitGrid ==
    /\ phase = "grid_start"
    /\ seed = SINGLE_SEED
    /\ use_random_scenario \in BOOLEAN
    /\ scenarios = select_scenarios(use_random_scenario, seed)
    /\ lookup_year = 0
    /\ lookup_result = None
    /\ args = None
    /\ run = None
    /\ batch = None
    /\ \E n \in 1 .. MaxSims :
         grid = [n_simulations |-> n,
                 param_grid |-> <<>>,
                 next |-> 1,
                 running |-> {},
                 slots |-> <<>>,
                 calls |-> <<>>,
                 overtaken |-> FALSE,
                 grid_results |-> None]
    /\ db = None
    /\ today = 0
    /\ sessions = None

\* lines 171-173
GridBuild ==
    /\ phase = "grid_start"
    /\ LET pg == ParamGrid(withdraw_rates, stock_ratios)
       IN  grid' = [grid EXCEPT !.param_grid = pg,
                                !.slots = [k \in 1 .. Len(pg) |-> None],
                                !.calls = [k \in 1 .. Len(pg) |-> <<>>]]
    /\ phase' = "grid_running"
    /\ UNCHANGED <<scheduleVars, lookupVars, simVars, batch, visitVars>>

\* line 175: the next task of param_grid goes to a free worker
GridDispatch ==
    /\ phase = "grid_running"
    /\ grid.next <= Len(grid.param_grid)
    /\ Cardinality(grid.running) < NWorkers
    /\ grid' = [grid EXCEPT !.running = @ \cup {grid.next}, !.next = @ + 1]
    /\ UNCHANGED <<phase, scheduleVars, lookupVars, simVars, batch, visitVars>>

\* lines 158-169 in a worker: task t finishes, its record goes to slot t;
\* overtaken remembers that a task finished before an earlier one
GridComplete(t) ==
    /\ phase = "grid_running"
    /\ t \in grid.running
    /\ grid' = [grid EXCEPT
                  !.running = @ \ {t},
                  !.slots[t] = Some(simulate_grid(grid.param_grid[t][1],
                                                  grid.param_grid[t][2],
                                                  grid.n_simulations, scenarios)),
                  !.calls[t] = GridCalls(grid.n_simulations),
                  !.overtaken = @ \/ (\E u \in grid.running : u < t)]
    /\ UNCHANGED <<phase, scheduleVars, lookupVars, simVars, batch, visitVars>>

\* line 175: Parallel returns the records in the order of param_grid
GridCollect ==
    /\ phase = "grid_running"
    /\ grid.next > Len(grid.param_grid)
    /\ grid.running = {}
    /\ grid' = [grid EXCEPT !.grid_results =
                    Some([k \in 1 .. Len(grid.slots) |-> grid.slots[k][1]])]
    /\ phase' = "grid_done"
    /\ UNCHANGED <<scheduleVars, lookupVars, simVars, batch, visitVars>>

NextGrid ==
    \/ GridBuild
    \/ GridDispatch
    \/ \E t \in 1 .. Len(grid.param_grid) : GridComplete(t)
    \/ GridCollect

SpecGrid == InitGrid /\ [][NextGrid]_vars

\* C6: the sweep yields exactly m * n records, and every pair (withdrawal
\* rate, equity ratio) of the cross product tags exactly one of them,
\* whatever the order in which the workers finish.
C6_GridComplete ==
    phase = "grid_done" =>
        LET records == grid.grid_results[1]
            m == Len(withdraw_rates)
            n == Len(stock_ratios)
        IN  /\ Len(records) = m * n
            /\ \A i \in 1 .. m, j \in 1 .. n :
                 Cardinality({k \in 1 .. Len(records) :
                                /\ records[k].withdrawal_rate = withdraw_rates[i]
                                /\ records[k].stock_allocation = stock_ratios[j]}) = 1

\* a finished sweep in which a task finished before an earlier one
C6_Witness ==
    /\ phase = "grid_done"
    /\ Len(grid.grid_results[1]) = 6
    /\ grid.overtaken

\* C5: the calls of one cell all carry the same seed argument, the cell's
\* own base seed, which differs from cell to cell and from the
\* single-scenario run's 42.
C5_CellSpecificBaseSeed ==
    phase \in {"grid_running", "grid_done"} =>
        LET done == {t \in 1 .. Len(grid.calls) : grid.calls[t] # <<>>}
        IN  /\ \A t \in done : \A c \in 1 .. Len(grid.calls[t]) :
                  /\ grid.calls[t][c].seed = grid.calls[t][1].seed
                  /\ grid.calls[t][c].seed # SINGLE_SEED
            /\ \A t, u \in done :
                  t # u => grid.calls[t][1].seed # grid.calls[u][1].seed

-----------------------------------------------------------------------------
(* Visitor tracker: every session runs track(), that is init_db() and then  *)
(* record_visit(user_id), each on a connection of its own                   *)

NSessions == 2

MaxVisits == 2

MaxDay == 1

Users == {"alice", "bob"}

\* lines 14-21: CREATE TABLE IF NOT EXISTS visitors
init_db(d) == IF d.created THEN d ELSE [created |-> TRUE, rows |-> <<>>]

\* line 31 and line 32: SELECT ... WHERE date = ? AND user_id = ?, fetchone()
SelectVisit(d, date, user_id) ==
    \E i \in 1 .. Len(d.rows) : d.rows[i].date = date /\ d.rows[i].user_id = user_id

\* lines 33-34: INSERT and commit; id INTEGER PRIMARY KEY AUTOINCREMENT
InsertVisit(d, date, user_id) ==
    [d EXCEPT !.rows = Append(@, [id |-> Len(@) + 1, date |-> date,
                                  user_id |-> user_id])]

InitVisit ==
    /\ phase = "track"
    /\ seed = 0
    /\ use_random_scenario = FALSE
    /\ scenarios = None
    /\ lookup_year = 0
    /\ lookup_result = None
    /\ args = None
    /\ run = None
    /\ batch = None
    /\ grid = None
    /\ db = [created |-> FALSE, rows |-> <<>>]
    /\ today = 0
    /\ sessions = [s \in 1 .. NSessions |->
                     [pc |-> "idle", user_id |-> "", today |-> 0,
                      found |-> FALSE, visits |-> 0]]

\* lines 90-94: track() opens the page of a user and initialises the database
TrackInitDb(s) ==
    /\ phase = "track"
    /\ sessions[s].pc = "idle"
    /\ sessions[s].visits < MaxVisits
    /\ \E u \in Users :
         sessions' = [sessions EXCEPT ![s].pc = "init_db_done", ![s].user_id = u]
    /\ db' = init_db(db)
    /\ UNCHANGED <<phase, scheduleVars, lookupVars, simVars, batch, grid, today>>

\* lines 26-32: the check
RecordVisitSelect(s) ==
    /\ phase = "track"
    /\ sessions[s].pc = "init_db_done"
    /\ sessions' = [sessions EXCEPT
                      ![s].pc = "selected",
                      ![s].today = today,
                      ![s].found = SelectVisit(db, today, sessions[s].user_id)]
    /\ UNCHANGED <<phase, scheduleVars, lookupVars, simVars, batch, grid, db, today>>

\* lines 32-35: the insert when the check found no row, and the close
RecordVisitInsert(s) ==
    /\ phase = "track"
    /\ sessions[s].pc = "selected"
    /\ db' = IF sessions[s].found THEN db
             ELSE InsertVisit(db, sessions[s].today, sessions[s].user_id)
    /\ sessions' = [sessions EXCEPT ![s].pc = "idle", ![s].visits = @ + 1]
    /\ UNCHANGED <<phase, scheduleVars, lookupVars, simVars, batch, grid, today>>

\* midnight
NextDay ==
    /\ phase = "track"
    /\ today < MaxDay
    /\ today' = today + 1
    /\ UNCHANGED <<phase, scheduleVars, lookupVars, simVars, batch, grid, db, sessions>>

NextVisit ==
    \/ \E s \in 1 .. NSessions :
         TrackInitDb(s) \/ RecordVisitSelect(s) \/ RecordVisitInsert(s)
    \/ NextDay

SpecVisit == InitVisit /\ [][NextVisit]_vars

\* C10: after any number of record_visit calls, interleaved or not, table
\* visitors holds at most one row for each (date, user_id) pair.
C10_OneRowPerUserPerDay ==
    phase = "track" =>
        \A i, j \in 1 .. Len(db.rows) :
            (db.rows[i].date = db.rows[j].date
                /\ db.rows[i].user_id = db.rows[j].user_id) => i = j

====
